---- MODULE Spec2Model ----
(***************************************************************************)
(* State-machine model of three-good-godrays (src/src/index.ts).           *)
(*                                                                         *)
(* One GodraysPass, the point light it was built from, the one-shot        *)
(* blue-noise load of its GodraysMaterial and the renderer's command       *)
(* stream.  JavaScript runs every host call and every promise callback to  *)
(* completion, so each of them is one atomic action.                       *)
(*                                                                         *)
(* Numbers are kept in fixed units so that they stay integers:             *)
(*   density, maxDensity     in 1/128      (1/128 is 1, 0.5 is 64)         *)
(*   distanceAttenuation     in 1/1000     (0.005 is 5)                    *)
(*   color                   as its hex value (0xffffff is 16777215)       *)
(* Textures are identities (small integers); Null stands for null.         *)
(* Uniforms that alias host objects (lightPos, cameraPos, the two camera   *)
(* matrices, the shadow camera planes, sceneDiffuse) carry no state of     *)
(* their own that the operations below read back; they are left out.       *)
(***************************************************************************)
EXTENDS Integers, Sequences, FiniteSets, TLC

\* ------------------------------------------------------------------ bounds
MaxValue    == 2   \* explicit parameter values are 1..MaxValue
MaxDim      == 2   \* setSize widths and heights are 1..MaxDim
MaxTexture  == 2   \* depth textures are 1..MaxTexture
MaxMapSize  == 1   \* shadow map heights are 2..1+MaxMapSize
MaxFrames   == 2   \* render calls kept in the command stream

\* ------------------------------------------------------------------ values
Null      == 0
Undefined == -1

BasicDepthPacking == 3200
RGBADepthPacking  == 3201

Fields == {"density", "maxDensity", "edgeStrength", "edgeRadius",
           "distanceAttenuation", "color"}

IllumFields == {"density", "maxDensity", "distanceAttenuation"}

CompositorFields == {"edgeStrength", "edgeRadius", "color"}

ParamValues == 1..MaxValue

Dims == 1..MaxDim

DepthTextures == 1..MaxTexture

DepthPackings == {Undefined, BasicDepthPacking, RGBADepthPacking}

\* light.shadow.map, a render target named by its height; Null before the
\* renderer has allocated it
ShadowMaps == 2..(1 + MaxMapSize)

\* map.texture and map.height of an allocated shadow map
MapTexture(map) == 100 + map

MapHeight(map) == map

\* the texture getBlueNoiseTexture() resolves to
BlueNoiseTexture == 200

\* width and height of the decoded blue-noise image (the image itself is not
\* among the sources; any size other than the initial 1x1 behaves alike)
NoiseImage == <<4, 4>>

\* Partial<GodraysPassParams>: nothing, one field, a color that is explicitly
\* undefined (the case populateParams guards with ??), or every field
NoParams == [f \in {} |-> Null]

ParamInputs ==
    {NoParams}
    \cup {[f \in {g} |-> v] : g \in Fields, v \in ParamValues}
    \cup {[f \in {"color"} |-> Undefined]}
    \cup {[f \in Fields |-> v] : v \in ParamValues}

ShadowError  == "Point light must have shadow"
PackingError == "Only BasicDepthPacking is supported"
TypeError    == "TypeError"
NoError      == "none"

\* ------------------------------------------------------------------ state
VARIABLES
    pointLight,           \* host: [shadow: does light.shadow exist, map: light.shadow.map]
    constructed,          \* "none" | "live" | "failed": outcome of new GodraysPass(...)
    illumUniforms,        \* GodraysIllumPass.material.uniforms
    shadowMapSet,         \* GodraysIllumPass.shadowMapSet
    lastParams,           \* GodraysIllumPass.lastParams
    compositorUniforms,   \* GodraysCompositorMaterial.uniforms
    godraysRenderTarget,  \* GodraysPass.godraysRenderTarget: [width, height]
    blueNoiseLoad,        \* promise of getBlueNoiseTexture: "idle" | "pending" | "loaded" | "failed"
    commands,             \* draws issued to the renderer, oldest first
    err,                  \* error thrown by the most recent host call, or NoError
    lastCall,             \* history: the most recent host call [op, args, repeat]
    appliedParams,        \* history: populated params of the latest constructor/setParams
    sizeArg               \* history: <<width, height>> of the latest setSize, or <<>>

vars == <<pointLight, constructed, illumUniforms, shadowMapSet, lastParams,
          compositorUniforms, godraysRenderTarget, blueNoiseLoad, commands,
          err, lastCall, appliedParams, sizeArg>>

\* ------------------------------------------------------------------ pure code
GODRAYS_RESOLUTION_SCALE == <<1, 2>>   \* 0.5 as numerator, denominator

\* Math.ceil(n * GODRAYS_RESOLUTION_SCALE) for n >= 0
ScaledCeil(n) ==
    LET num == GODRAYS_RESOLUTION_SCALE[1]
        den == GODRAYS_RESOLUTION_SCALE[2]
    IN  (n * num + den - 1) \div den

defaultParams ==
    [density |-> 1, maxDensity |-> 64, edgeStrength |-> 2, edgeRadius |-> 1,
     distanceAttenuation |-> 5, color |-> 16777215]

\* new THREE.Color(c): a fresh Color holding c's value
NewColor(c) == c

\* a ?? b
Coalesce(a, b) == IF a = Undefined THEN b ELSE a

\* partialParams.f, undefined when the key is absent
Get(partialParams, f) ==
    IF f \in DOMAIN partialParams THEN partialParams[f] ELSE Undefined

\* mutant: merges onto the previously applied parameters, not the defaults
populateParams_KeepPrior(partialParams) ==
    [f \in Fields |->
        IF f = "color"
        THEN NewColor(Coalesce(Get(partialParams, "color"), appliedParams.color))
        ELSE IF f \in DOMAIN partialParams
             THEN partialParams[f]
             ELSE appliedParams[f]]

populateParams(partialParams) ==
    [f \in Fields |->
        IF f = "color"
        THEN NewColor(Coalesce(Get(partialParams, "color"), defaultParams.color))
        ELSE IF f \in DOMAIN partialParams
             THEN partialParams[f]
             ELSE defaultParams[f]]

\* uniforms of a new GodraysMaterial
GodraysMaterialUniforms ==
    [density |-> 1, maxDensity |-> 64, distanceAttenuation |-> 5,
     sceneDepth |-> Null, resolution |-> <<1, 1>>,
     depthCube |-> Null, mapSize |-> 1,
     blueNoise |-> Null, noiseResolution |-> <<1, 1>>]

\* uniforms of a new GodraysCompositorMaterial
GodraysCompositorMaterialUniforms(params) ==
    [godrays |-> "godraysRenderTarget.texture",
     sceneDepth |-> Null,
     edgeStrength |-> params.edgeStrength, edgeRadius |-> params.edgeRadius,
     color |-> params.color, resolution |-> <<1, 1>>]

\* mutant: the shadow check is dropped
MissingShadow_NeverThrows(light) == FALSE

\* if (!pointLightShadow) throw
MissingShadow(light) == ~light.shadow

\* mutant: density accumulates (+=) onto the uniform
IllumUpdateUniforms_Accumulate(uniforms, light, params) ==
    LET depthCube == IF light.map = Null THEN Null ELSE MapTexture(light.map)
        mapSize   == IF light.map = Null THEN 1 ELSE MapHeight(light.map)
    IN  [uniforms EXCEPT !.density = uniforms.density + params.density,
                         !.maxDensity = params.maxDensity,
                         !.depthCube = depthCube,
                         !.mapSize = mapSize,
                         !.distanceAttenuation = params.distanceAttenuation]

\* GodraysIllumPass.updateUniforms past its shadow check
IllumUpdateUniforms(uniforms, light, params) ==
    LET depthCube == IF light.map = Null THEN Null ELSE MapTexture(light.map)
        mapSize   == IF light.map = Null THEN 1 ELSE MapHeight(light.map)
    IN  [uniforms EXCEPT !.density = params.density,
                         !.maxDensity = params.maxDensity,
                         !.depthCube = depthCube,
                         !.mapSize = mapSize,
                         !.distanceAttenuation = params.distanceAttenuation]

\* GodraysCompositorPass.updateUniforms -> GodraysCompositorMaterial.updateUniforms
CompositorUpdateUniforms(uniforms, params) ==
    [uniforms EXCEPT !.edgeStrength = params.edgeStrength,
                     !.edgeRadius = params.edgeRadius,
                     !.color = params.color]

\* mutant: the truthiness guard is dropped, so no packing is rejected too
UnsupportedPacking_Strict(depthPacking) == depthPacking # BasicDepthPacking

\* depthPacking && depthPacking !== THREE.BasicDepthPacking
UnsupportedPacking(depthPacking) ==
    /\ depthPacking # Undefined
    /\ depthPacking # 0
    /\ depthPacking # BasicDepthPacking

IllumDraw(uniforms) ==
    [pass |-> "illum", reads |-> "sceneDepth", target |-> "godraysRenderTarget",
     depthCube |-> uniforms.depthCube]

CompositorDraw ==
    [pass |-> "compositor", reads |-> "godraysRenderTarget", target |-> "output",
     depthCube |-> Null]

\* history record of a host call; repeat: the call before it was the same call
Call(op, args) ==
    [op |-> op, args |-> args,
     repeat |-> (lastCall.op = op /\ lastCall.args = args)]

\* ------------------------------------------------------------------ Init
Init ==
    /\ pointLight \in [shadow : BOOLEAN, map : {Null}]
    /\ constructed = "none"
    /\ illumUniforms = GodraysMaterialUniforms
    /\ shadowMapSet = FALSE
    /\ lastParams = defaultParams
    /\ compositorUniforms = GodraysCompositorMaterialUniforms(defaultParams)
    /\ godraysRenderTarget = [width |-> 1, height |-> 1]
    /\ blueNoiseLoad = "idle"
    /\ commands = <<>>
    /\ err = NoError
    /\ lastCall = [op |-> "none", args |-> <<>>, repeat |-> FALSE]
    /\ appliedParams = defaultParams
    /\ sizeArg = <<>>

\* ------------------------------------------------------------------ stage operations
\* mutant: the illumination stage takes the full resolution
IllumSetSize_Unscaled(uniforms, width, height) ==
    [uniforms EXCEPT !.resolution = <<width, height>>]

\* GodraysIllumPass.setSize
IllumSetSize(uniforms, width, height) ==
    [uniforms EXCEPT !.resolution = <<ScaledCeil(width), ScaledCeil(height)>>]

\* GodraysCompositorPass.setSize -> GodraysCompositorMaterial.setSize
CompositorSetSize(uniforms, width, height) ==
    [uniforms EXCEPT !.resolution = <<width, height>>]

\* this.godraysRenderTarget.setSize(ceil(width * scale), ceil(height * scale))
RenderTargetSetSize(width, height) ==
    [width |-> ScaledCeil(width), height |-> ScaledCeil(height)]

\* GodraysIllumPass.setDepthTexture: assigns, then validates
IllumSetDepthTexture(uniforms, depthTexture, depthPacking) ==
    [uniforms |-> [uniforms EXCEPT !.sceneDepth = depthTexture],
     threw    |-> UnsupportedPacking(depthPacking)]

\* GodraysCompositorPass.setDepthTexture: validates, then assigns
CompositorSetDepthTexture(uniforms, depthTexture, depthPacking) ==
    IF UnsupportedPacking(depthPacking)
    THEN [uniforms |-> uniforms, threw |-> TRUE]
    ELSE [uniforms |-> [uniforms EXCEPT !.sceneDepth = depthTexture],
          threw    |-> FALSE]

\* mutant: the latch closes on the first render, shadow map or not
IllumRender_LatchWithoutMap(uniforms, mapSet, light, params) ==
    IF ~mapSet
    THEN [uniforms |-> IllumUpdateUniforms(uniforms, light, params),
          shadowMapSet |-> TRUE]
    ELSE [uniforms |-> uniforms, shadowMapSet |-> mapSet]

\* GodraysIllumPass.render up to its draw, for a light that has a shadow:
\* the shadow-map latch and the uniforms the draw will use
IllumRender(uniforms, mapSet, light, params) ==
    IF ~mapSet /\ light.map # Null
    THEN [uniforms |-> IllumUpdateUniforms(uniforms, light, params),
          shadowMapSet |-> TRUE]
    ELSE [uniforms |-> uniforms, shadowMapSet |-> mapSet]

\* mutant: the compositor draws before the illumination stage
RenderCommands_CompositorFirst(uniforms) == <<CompositorDraw, IllumDraw(uniforms)>>

\* the two draws of GodraysPass.render, in issue order
RenderCommands(uniforms) == <<IllumDraw(uniforms), CompositorDraw>>

\* mutant: the callback assigns the texture and leaves the resolution
BlueNoiseLoaded_TextureOnly(uniforms) ==
    [uniforms EXCEPT !.blueNoise = BlueNoiseTexture]

\* the .then callback of getBlueNoiseTexture()
BlueNoiseLoaded(uniforms) ==
    [uniforms EXCEPT !.blueNoise = BlueNoiseTexture,
                     !.noiseResolution = NoiseImage]

\* ------------------------------------------------------------------ host calls
\* new GodraysPass(light, camera, partialParams)
Construct(partialParams) ==
    LET params    == populateParams(partialParams)
        again     == populateParams(params)
        illumCtor == IllumUpdateUniforms(GodraysMaterialUniforms, pointLight, params)
        compCtor  == CompositorUpdateUniforms(
                         GodraysCompositorMaterialUniforms(params), params)
    IN  /\ constructed = "none"
        /\ lastCall' = Call("constructor", partialParams)
        /\ lastParams' = params
        /\ blueNoiseLoad' = "pending"
        /\ IF MissingShadow(pointLight)
           THEN /\ constructed' = "failed"
                /\ err' = ShadowError
                /\ UNCHANGED <<illumUniforms, compositorUniforms, appliedParams>>
           ELSE /\ constructed' = "live"
                /\ err' = NoError
                /\ illumUniforms' = IllumUpdateUniforms(illumCtor, pointLight, again)
                /\ compositorUniforms' = CompositorUpdateUniforms(compCtor, again)
                /\ appliedParams' = again
        /\ UNCHANGED <<pointLight, shadowMapSet, godraysRenderTarget, commands, sizeArg>>

\* GodraysPass.setParams(partialParams)
SetParams(partialParams) ==
    LET params == populateParams(partialParams)
    IN  /\ constructed = "live"
        /\ lastCall' = Call("setParams", partialParams)
        /\ IF MissingShadow(pointLight)
           THEN /\ err' = ShadowError
                /\ UNCHANGED <<illumUniforms, compositorUniforms, appliedParams>>
           ELSE /\ err' = NoError
                /\ illumUniforms' = IllumUpdateUniforms(illumUniforms, pointLight, params)
                /\ compositorUniforms' = CompositorUpdateUniforms(compositorUniforms, params)
                /\ appliedParams' = params
        /\ UNCHANGED <<pointLight, constructed, shadowMapSet, lastParams,
                       godraysRenderTarget, blueNoiseLoad, commands, sizeArg>>

\* GodraysPass.render(renderer, inputBuffer, outputBuffer)
Render ==
    /\ constructed = "live"
    /\ Len(commands) < 2 * MaxFrames
    /\ lastCall' = Call("render", <<>>)
    /\ IF ~shadowMapSet /\ ~pointLight.shadow
       THEN \* this.props.pointLight.shadow.map reads a property of undefined
            /\ err' = TypeError
            /\ UNCHANGED <<illumUniforms, shadowMapSet, commands>>
       ELSE LET r == IllumRender(illumUniforms, shadowMapSet, pointLight, lastParams)
            IN  /\ err' = NoError
                /\ illumUniforms' = r.uniforms
                /\ shadowMapSet' = r.shadowMapSet
                /\ commands' = commands \o RenderCommands(r.uniforms)
    /\ UNCHANGED <<pointLight, constructed, lastParams, compositorUniforms,
                   godraysRenderTarget, blueNoiseLoad, appliedParams, sizeArg>>

\* GodraysPass.setDepthTexture(depthTexture, depthPacking)
SetDepthTexture(depthTexture, depthPacking) ==
    LET i == IllumSetDepthTexture(illumUniforms, depthTexture, depthPacking)
        c == CompositorSetDepthTexture(compositorUniforms, depthTexture, depthPacking)
    IN  /\ constructed = "live"
        /\ lastCall' = Call("setDepthTexture", <<depthTexture, depthPacking>>)
        /\ illumUniforms' = i.uniforms
        /\ IF i.threw
           THEN /\ err' = PackingError
                /\ UNCHANGED compositorUniforms
           ELSE /\ compositorUniforms' = c.uniforms
                /\ err' = IF c.threw THEN PackingError ELSE NoError
        /\ UNCHANGED <<pointLight, constructed, shadowMapSet, lastParams,
                       godraysRenderTarget, blueNoiseLoad, commands,
                       appliedParams, sizeArg>>

\* GodraysPass.setSize(width, height)
SetSize(width, height) ==
    /\ constructed = "live"
    /\ lastCall' = Call("setSize", <<width, height>>)
    /\ err' = NoError
    /\ godraysRenderTarget' = RenderTargetSetSize(width, height)
    /\ illumUniforms' = IllumSetSize(illumUniforms, width, height)
    /\ compositorUniforms' = CompositorSetSize(compositorUniforms, width, height)
    /\ sizeArg' = <<width, height>>
    /\ UNCHANGED <<pointLight, constructed, shadowMapSet, lastParams,
                   blueNoiseLoad, commands, appliedParams>>

\* ------------------------------------------------------------------ environment
\* the renderer allocates the light's shadow map on its first shadow pass
ShadowMapRendered(map) ==
    /\ pointLight.shadow
    /\ pointLight.map = Null
    /\ pointLight' = [pointLight EXCEPT !.map = map]
    /\ UNCHANGED <<constructed, illumUniforms, shadowMapSet, lastParams,
                   compositorUniforms, godraysRenderTarget, blueNoiseLoad,
                   commands, err, lastCall, appliedParams, sizeArg>>

\* textureLoader.loadAsync resolves: the .then callback runs
NoiseLoadResolves ==
    /\ blueNoiseLoad = "pending"
    /\ blueNoiseLoad' = "loaded"
    /\ illumUniforms' = BlueNoiseLoaded(illumUniforms)
    /\ UNCHANGED <<pointLight, constructed, shadowMapSet, lastParams,
                   compositorUniforms, godraysRenderTarget, commands, err,
                   lastCall, appliedParams, sizeArg>>

\* textureLoader.loadAsync rejects: no callback is registered for that
NoiseLoadRejects ==
    /\ blueNoiseLoad = "pending"
    /\ blueNoiseLoad' = "failed"
    /\ UNCHANGED <<pointLight, constructed, illumUniforms, shadowMapSet,
                   lastParams, compositorUniforms, godraysRenderTarget,
                   commands, err, lastCall, appliedParams, sizeArg>>

Next ==
    \/ \E p \in ParamInputs : Construct(p)
    \/ \E p \in ParamInputs : SetParams(p)
    \/ Render
    \/ \E t \in DepthTextures, k \in DepthPackings : SetDepthTexture(t, k)
    \/ \E w \in Dims, h \in Dims : SetSize(w, h)
    \/ \E m \in ShadowMaps : ShadowMapRendered(m)
    \/ NoiseLoadResolves
    \/ NoiseLoadRejects

Spec == Init /\ [][Next]_vars

\* The operations touch disjoint parts of the pass: parameters and shadow
\* uniforms, the depth source, the resolutions, the noise uniforms.  Each
\* part is explored with the calls that touch it, construction and render.
NextParams ==
    \/ \E p \in ParamInputs : Construct(p)
    \/ \E p \in ParamInputs : SetParams(p)
    \/ Render
    \/ \E m \in ShadowMaps : ShadowMapRendered(m)

SpecParams == Init /\ [][NextParams]_vars

NextDepth ==
    \/ \E p \in ParamInputs : Construct(p)
    \/ \E t \in DepthTextures, k \in DepthPackings : SetDepthTexture(t, k)
    \/ Render

SpecDepth == Init /\ [][NextDepth]_vars

NextSize ==
    \/ \E p \in ParamInputs : Construct(p)
    \/ \E w \in Dims, h \in Dims : SetSize(w, h)
    \/ Render

SpecSize == Init /\ [][NextSize]_vars

NextNoise ==
    \/ Construct(NoParams)
    \/ \E p \in ParamInputs : SetParams(p)
    \/ \E w \in Dims, h \in Dims : SetSize(w, h)
    \/ Render
    \/ NoiseLoadResolves
    \/ NoiseLoadRejects

SpecNoise == Init /\ [][NextNoise]_vars

\* ------------------------------------------------------------------ claims
\* the value a stage holds for parameter field f
StageValue(f) ==
    IF f \in IllumFields THEN illumUniforms[f] ELSE compositorUniforms[f]

\* a step that is a host call on the pass (the environment did not move)
HostStep == pointLight' = pointLight /\ blueNoiseLoad' = blueNoiseLoad

\* C1 as stated: after a setParams call every field the call did not specify
\* still holds the value the stage held before the call.
C1_UnspecifiedKeepPrior ==
    [][(HostStep /\ lastCall'.op = "setParams" /\ err' = NoError)
        => \A f \in Fields \ DOMAIN lastCall'.args :
              StageValue(f)' = StageValue(f)]_vars

\* C1 amended: after a setParams call every field absent from the call's
\* argument (or given as undefined) holds its default value, whatever the
\* stage held before; a field given a value holds that value.
C1_UnspecifiedTakeDefault ==
    (lastCall.op = "setParams" /\ err = NoError)
        => \A f \in Fields :
              IF f \notin DOMAIN lastCall.args \/ lastCall.args[f] = Undefined
              THEN StageValue(f) = defaultParams[f]
              ELSE StageValue(f) = lastCall.args[f]

C1_Witness ==
    /\ lastCall.op = "setParams"
    /\ err = NoError
    /\ \E f \in Fields \ DOMAIN lastCall.args :
          /\ lastParams[f] # defaultParams[f]
          /\ StageValue(f) = defaultParams[f]

\* C2: the illumination stage's density, maxDensity and distanceAttenuation
\* uniforms always equal the values applied by the latest setParams call (or
\* by construction when there was none).
C2_IllumHoldsLatestParams ==
    constructed = "live"
        => \A f \in IllumFields : illumUniforms[f] = appliedParams[f]

\* C3: a render call never throws; made while the light has no shadow map it
\* leaves every illumination uniform and the latch as they were; the first
\* one made with a shadow map sets depthCube and mapSize from that map before
\* its illumination draw and sets the latch.
C3_RenderRetriesShadowMap ==
    /\ [](lastCall.op = "render" => err = NoError)
    /\ [][(HostStep /\ lastCall'.op = "render" /\ commands' # commands)
            => /\ pointLight.map = Null
                    => /\ illumUniforms' = illumUniforms
                       /\ shadowMapSet' = shadowMapSet
                       /\ ~shadowMapSet'
               /\ (pointLight.map # Null /\ ~shadowMapSet)
                    => /\ illumUniforms'.depthCube = MapTexture(pointLight.map)
                       /\ illumUniforms'.mapSize = MapHeight(pointLight.map)
                       /\ commands'[Len(commands) + 1].depthCube
                              = MapTexture(pointLight.map)
                       /\ shadowMapSet']_vars

C3_Witness ==
    /\ Len(commands) = 4
    /\ commands[1].depthCube = Null
    /\ commands[3].depthCube # Null
    /\ commands[3].depthCube = illumUniforms.depthCube
    /\ shadowMapSet

\* C4: setDepthTexture throws the packing error from the call itself exactly
\* when the packing is given and is not BasicDepthPacking; render never
\* throws it.
C4_PackingRejectedAtCall ==
    /\ lastCall.op = "setDepthTexture"
         => (err = PackingError
               <=> lastCall.args[2] \notin {Undefined, BasicDepthPacking})
    /\ lastCall.op = "render" => err # PackingError

C4_Witness ==
    /\ lastCall.op = "setDepthTexture"
    /\ lastCall.args[2] = RGBADepthPacking
    /\ err = PackingError

\* C5: the command stream is a sequence of frames, each one illumination
\* draw into the Godrays Buffer followed by one compositor draw that reads
\* it; every render call appends exactly one such frame.
C5_IllumThenCompositor ==
    /\ [](/\ Len(commands) % 2 = 0
          /\ \A i \in 1..Len(commands) :
                IF i % 2 = 1
                THEN /\ commands[i].pass = "illum"
                     /\ commands[i].target = "godraysRenderTarget"
                ELSE /\ commands[i].pass = "compositor"
                     /\ commands[i].reads = "godraysRenderTarget")
    /\ [][(lastCall'.op = "render" /\ lastCall.op # "render")
            => Len(commands') = Len(commands) + 2]_vars
    /\ [][commands' # commands
            => /\ Len(commands') = Len(commands) + 2
               /\ SubSeq(commands', 1, Len(commands)) = commands]_vars

C5_Witness ==
    /\ Len(commands) = 4
    /\ commands[3].pass = "illum"
    /\ commands[2].pass = "compositor"

C8_NoiseSwitchesAtomically ==
    /\ blueNoiseLoad \in {"idle", "pending", "failed"}
          => /\ illumUniforms.blueNoise = Null
             /\ illumUniforms.noiseResolution = <<1, 1>>
    /\ blueNoiseLoad = "loaded"
          => /\ illumUniforms.blueNoise = BlueNoiseTexture
             /\ illumUniforms.noiseResolution = NoiseImage
    /\ lastCall.op = "render" => (err = NoError /\ commands # <<>>)

C8_Witness ==
    /\ blueNoiseLoad = "loaded"
    /\ lastCall.op = "render"
    /\ Len(commands) = 4
    /\ illumUniforms.noiseResolution = NoiseImage

\* the illumination uniforms without the two that follow the light's map
ParamView(uniforms) == [uniforms EXCEPT !.depthCube = Null, !.mapSize = Null]

\* C9: a setParams call that repeats the call before it changes no parameter
\* uniform of either stage and nothing else of the pass (buffer size, depth
\* source, resolutions, latch, lastParams).
C9_SetParamsIdempotent ==
    [][(HostStep /\ lastCall'.op = "setParams" /\ lastCall'.repeat)
        => /\ ParamView(illumUniforms') = ParamView(illumUniforms)
           /\ compositorUniforms' = compositorUniforms
           /\ godraysRenderTarget' = godraysRenderTarget
           /\ shadowMapSet' = shadowMapSet
           /\ lastParams' = lastParams]_vars

C9_Witness ==
    /\ lastCall.op = "setParams"
    /\ lastCall.repeat
    /\ err = NoError
    /\ DOMAIN lastCall.args # {}

\* C10: both stages always hold the same scene depth texture.
C10_StagesShareDepth ==
    constructed = "live"
        => illumUniforms.sceneDepth = compositorUniforms.sceneDepth

====
